---- MODULE Spec2Model ----
(***************************************************************************)
(* Model of the linreg crate (src/src/lib.rs): ordinary least-squares      *)
(* regression over a generic float type F (num_traits::Float).             *)
(*                                                                         *)
(* A value of F is an extended rational [n, d]:                            *)
(*   d > 0          the finite number n/d (in lowest terms),               *)
(*   d = 0, n = +-1 the infinities,                                        *)
(*   d = 0, n = 0   NaN.                                                   *)
(* Every arithmetic operator of F computes the IEEE-754 result: the exact  *)
(* result of the operation, then rounded into the format `fmt`:            *)
(*   "ieee"   a binary format with Prec significand bits, exponents        *)
(*            -EminNeg..Emax, subnormals, round-to-nearest-even and         *)
(*            overflow to infinity (f32/f64 scaled down),                  *)
(*   "exact"  no rounding at all (the real-number reading of the code).    *)
(* +0 and -0 are one value, as they are for Rust's `==`; the only divisor  *)
(* in the code, xxm2, is a sum of squares added to +0 and is never -0.     *)
(***************************************************************************)
EXTENDS Integers, Sequences, FiniteSets

\* ---------------------------------------------------------------- bounds
MaxLen == 3
Prec == 3
Emax == 4
EminNeg == 4

\* ------------------------------------------------------ extended rationals
RECURSIVE GCD(_, _)
GCD(a, b) == IF b = 0 THEN a ELSE GCD(b, a % b)

Abs(i) == IF i < 0 THEN -i ELSE i

Pow2(k) == 2 ^ k

Norm(n, d) ==
    LET s == IF d < 0 THEN -1 ELSE 1
        g == GCD(Abs(n), Abs(d))
    IN  [n |-> (s * n) \div g, d |-> (s * d) \div g]

Rat(n, d) == Norm(n, d)
Zero == [n |-> 0, d |-> 1]
NaN == [n |-> 0, d |-> 0]
PInf == [n |-> 1, d |-> 0]
NInf == [n |-> -1, d |-> 0]

is_nan(v) == v.d = 0 /\ v.n = 0
IsInf(v) == v.d = 0 /\ v.n # 0
IsFinite(v) == v.d > 0
Sgn(v) == IF v.n > 0 THEN 1 ELSE IF v.n < 0 THEN -1 ELSE 0
InfOf(s) == IF s < 0 THEN NInf ELSE PInf
Neg(v) == [n |-> -v.n, d |-> v.d]

\* ------------------------------------------------------------- rounding
Quanta == Pow2(Prec - 1 + EminNeg)
MaxBinade == Emax + EminNeg
Significands == Pow2(Prec)
MaxSpacing == Pow2(MaxBinade)
MaxQuanta == (Significands - 1) * MaxSpacing
MaxFinite == Rat(MaxQuanta, Quanta)

RoundHalfEven(a, b) ==
    LET f == a \div b
        r == a - f * b
    IN  IF 2 * r < b THEN f
        ELSE IF 2 * r > b THEN f + 1
        ELSE IF f % 2 = 0 THEN f ELSE f + 1

\* the spacing (in quanta) of the representable numbers around num/den:
\* 1 below 2^Prec quanta (subnormals and the first binade), doubling with
\* every binade above; past the largest binade every number overflows
RECURSIVE Spacing(_, _, _)
Spacing(num, lim, u) ==
    IF num < lim \/ u > MaxSpacing THEN u
    ELSE Spacing(num, 2 * lim, 2 * u)

RoundMag(n, d) ==
    LET num == n * Quanta
        u == Spacing(num, Significands * d, 1)
        k == RoundHalfEven(num, d * u) * u
    IN  IF k > MaxQuanta THEN PInf ELSE Rat(k, Quanta)

\* (of a finite v)
Round(f, v) ==
    IF f = "exact" \/ v.n = 0 THEN v
    ELSE IF v.n > 0 THEN RoundMag(v.n, v.d)
    ELSE Neg(RoundMag(-v.n, v.d))

\* ------------------------------------------------- arithmetic of F (Float)
Add(f, a, b) ==
    IF a.d # 0 /\ b.d # 0 THEN Round(f, Rat(a.n * b.d + b.n * a.d, a.d * b.d))
    ELSE IF is_nan(a) \/ is_nan(b) THEN NaN
    ELSE IF IsInf(a) /\ IsInf(b) THEN (IF a.n = b.n THEN a ELSE NaN)
    ELSE IF IsInf(a) THEN a
    ELSE b

Sub(f, a, b) == Add(f, a, Neg(b))

Mul(f, a, b) ==
    IF a.d # 0 /\ b.d # 0 THEN Round(f, Rat(a.n * b.n, a.d * b.d))
    ELSE IF is_nan(a) \/ is_nan(b) THEN NaN
    ELSE IF a.n = 0 \/ b.n = 0 THEN NaN
    ELSE InfOf(Sgn(a) * Sgn(b))

Div(f, a, b) ==
    IF a.d # 0 /\ b.d # 0 /\ b.n # 0 THEN Round(f, Rat(a.n * b.d, a.d * b.n))
    ELSE IF is_nan(a) \/ is_nan(b) THEN NaN
    ELSE IF IsInf(a) THEN (IF IsInf(b) THEN NaN
                           ELSE InfOf(Sgn(a) * (IF b.n < 0 THEN -1 ELSE 1)))
    ELSE IF IsInf(b) THEN Zero
    ELSE IF a.n = 0 THEN NaN
    ELSE InfOf(Sgn(a))

\* --------------------------------------------------------- Option<(F, F)>
None == [some |-> FALSE, slope |-> Zero, intercept |-> Zero]
Some(m, b) == [some |-> TRUE, slope |-> m, intercept |-> b]

\* X: Into<F>.  Element types are "u8" (a TLA+ integer 0..255) and "F".
IntoF(e, x) == IF e = "u8" THEN Rat(x, 1) ELSE x

MapInto(e, s) == [i \in 1..Len(s) |-> IntoF(e, s[i])]

\* F::from(len): num_traits casts an integer count with `as`, i.e. it
\* rounds to the nearest F and always yields a value.
NumCastFrom(f, k) == [some |-> TRUE, v |-> Round(f, Rat(k, 1))]

\* Iterator::sum over F: left-to-right fold from zero.
RECURSIVE SumTo(_, _, _)
SumTo(f, s, k) == IF k = 0 THEN Zero ELSE Add(f, SumTo(f, s, k - 1), s[k])

Sum(f, s) == SumTo(f, s, Len(s))

\* faulty variant: the second side is walked from its end
Zip_reversed(a, b) ==
    LET n == IF Len(a) < Len(b) THEN Len(a) ELSE Len(b)
    IN  [i \in 1..n |-> <<a[i], b[Len(b) + 1 - i]>>]

\* Iterator::zip stops at the shorter side.
Zip(a, b) ==
    LET n == IF Len(a) < Len(b) THEN Len(a) ELSE Len(b)
    IN  [i \in 1..n |-> <<a[i], b[i]>>]

\* the loop of lin_reg: the two accumulators after all of xys
\* faulty variant: the loop starts at the second pair
RECURSIVE Accum_fromSecond(_, _, _, _, _)
Accum_fromSecond(f, xys, x_mean, y_mean, k) ==
    IF k <= 1 THEN [xxm2 |-> Zero, xmym2 |-> Zero]
    ELSE LET acc == Accum_fromSecond(f, xys, x_mean, y_mean, k - 1)
             x == xys[k][1]
             y == xys[k][2]
             dx == Sub(f, x, x_mean)
         IN  [xxm2 |-> Add(f, acc.xxm2, Mul(f, dx, dx)),
              xmym2 |-> Add(f, acc.xmym2, Mul(f, dx, Sub(f, y, y_mean)))]

\* faulty variant: the cross deviations are subtracted
RECURSIVE Accum_minus(_, _, _, _, _)
Accum_minus(f, xys, x_mean, y_mean, k) ==
    IF k = 0 THEN [xxm2 |-> Zero, xmym2 |-> Zero]
    ELSE LET acc == Accum_minus(f, xys, x_mean, y_mean, k - 1)
             x == xys[k][1]
             y == xys[k][2]
             dx == Sub(f, x, x_mean)
         IN  [xxm2 |-> Add(f, acc.xxm2, Mul(f, dx, dx)),
              xmym2 |-> Sub(f, acc.xmym2, Mul(f, dx, Sub(f, y, y_mean)))]

\* (after the first k pairs)
RECURSIVE Accum(_, _, _, _, _)
Accum(f, xys, x_mean, y_mean, k) ==
    IF k = 0 THEN [xxm2 |-> Zero, xmym2 |-> Zero]
    ELSE LET acc == Accum(f, xys, x_mean, y_mean, k - 1)
             x == xys[k][1]
             y == xys[k][2]
             dx == Sub(f, x, x_mean)
         IN  [xxm2 |-> Add(f, acc.xxm2, Mul(f, dx, dx)),
              xmym2 |-> Add(f, acc.xmym2, Mul(f, dx, Sub(f, y, y_mean)))]

\* faulty variant: the intercept adds slope * x_mean
lin_reg_plus(f, xys, x_mean, y_mean) ==
    LET acc == Accum(f, xys, x_mean, y_mean, Len(xys))
        slope == Div(f, acc.xmym2, acc.xxm2)
    IN  IF is_nan(slope) THEN None
        ELSE Some(slope, Add(f, y_mean, Mul(f, slope, x_mean)))

\* faulty variant: the slope is not tested for NaN
lin_reg_unchecked(f, xys, x_mean, y_mean) ==
    LET acc == Accum(f, xys, x_mean, y_mean, Len(xys))
        slope == Div(f, acc.xmym2, acc.xxm2)
    IN  Some(slope, Sub(f, y_mean, Mul(f, slope, x_mean)))

lin_reg(f, xys, x_mean, y_mean) ==
    LET acc == Accum(f, xys, x_mean, y_mean, Len(xys))
        slope == Div(f, acc.xmym2, acc.xxm2)
    IN  IF is_nan(slope) THEN None
        ELSE Some(slope, Sub(f, y_mean, Mul(f, slope, x_mean)))

\* The result of a call, with the number of passes made over the data.
Ret(v, k) == [val |-> v, passes |-> k]

\* faulty variant: the lengths are not compared
linear_regression_anyLen(f, ex, ey, xs, ys) ==
    LET x_sum == Sum(f, MapInto(ex, xs))
        n == NumCastFrom(f, Len(xs))
        x_mean == Div(f, x_sum, n.v)
        y_sum == Sum(f, MapInto(ey, ys))
        y_mean == Div(f, y_sum, n.v)
    IN  Ret(lin_reg(f, Zip(MapInto(ex, xs), MapInto(ey, ys)), x_mean, y_mean), 3)

linear_regression(f, ex, ey, xs, ys) ==
    IF Len(xs) # Len(ys) THEN Ret(None, 0)
    ELSE LET x_sum == Sum(f, MapInto(ex, xs))
             n == NumCastFrom(f, Len(xs))
         IN  IF ~n.some THEN Ret(None, 1)
             ELSE LET x_mean == Div(f, x_sum, n.v)
                      y_sum == Sum(f, MapInto(ey, ys))
                      y_mean == Div(f, y_sum, n.v)
                  IN  Ret(lin_reg(f, Zip(MapInto(ex, xs), MapInto(ey, ys)),
                                  x_mean, y_mean), 3)

\* faulty variant: the y sum accumulates the x component
RECURSIVE FoldSums_xTwice(_, _, _, _, _)
FoldSums_xTwice(f, ex, ey, xys, k) ==
    IF k = 0 THEN <<Zero, Zero>>
    ELSE LET s == FoldSums_xTwice(f, ex, ey, xys, k - 1)
             p == xys[k]
         IN  <<Add(f, s[1], IntoF(ex, p[1])), Add(f, s[2], IntoF(ex, p[1]))>>

\* the fused fold of linear_regression_of: both sums in one pass
\* (after the first k pairs)
RECURSIVE FoldSums(_, _, _, _, _)
FoldSums(f, ex, ey, xys, k) ==
    IF k = 0 THEN <<Zero, Zero>>
    ELSE LET s == FoldSums(f, ex, ey, xys, k - 1)
             p == xys[k]
         IN  <<Add(f, s[1], IntoF(ex, p[1])), Add(f, s[2], IntoF(ey, p[2]))>>

linear_regression_of(f, ex, ey, xys) ==
    IF Len(xys) = 0 THEN Ret(None, 0)
    ELSE LET n == NumCastFrom(f, Len(xys))
         IN  IF ~n.some THEN Ret(None, 0)
             ELSE LET s == FoldSums(f, ex, ey, xys, Len(xys))
                      x_mean == Div(f, s[1], n.v)
                      y_mean == Div(f, s[2], n.v)
                  IN  Ret(lin_reg(f, [i \in 1..Len(xys) |->
                                        <<IntoF(ex, xys[i][1]), IntoF(ey, xys[i][2])>>],
                                  x_mean, y_mean), 2)

\* ------------------------------------------------------------------ inputs
SeqsUpTo(S, n) == UNION {[1..k -> S] : k \in 0..n}

Vals(f, e) ==
    IF e = "u8" THEN {0, 1, 2}
    ELSE IF f = "exact" THEN {Rat(-1, 1), Rat(1, 2)}
    ELSE {Zero, Rat(3, 4), MaxFinite}

\* the element types enumerated in each format
Types(f) == IF f = "exact" THEN {"u8", "F"} ELSE {"F"}

\* the dataset of the crate's tests and the line y = 2x + 3
CanonXs == <<1, 2, 3, 4, 5>>
CanonYs == <<2, 4, 5, 4, 5>>
LineXs == <<0, 1, 2>>
LineYs == <<3, 5, 7>>

\* a slice one element longer than the largest count F holds exactly
LongLen == Pow2(Prec) + 1
LongXs == [i \in 1..LongLen |-> i % 2]
LongYs == [i \in 1..LongLen |-> i % 3]

Examples(f) ==
    {[e |-> "u8", xs |-> CanonXs, ys |-> CanonYs],
     [e |-> "F", xs |-> MapInto("u8", CanonXs), ys |-> MapInto("u8", CanonYs)],
     [e |-> "u8", xs |-> LineXs, ys |-> LineYs],
     [e |-> "F", xs |-> MapInto("u8", LineXs), ys |-> MapInto("u8", LineYs)]}
    \cup (IF f = "ieee" THEN {[e |-> "u8", xs |-> LongXs, ys |-> LongYs]} ELSE {})

Inputs(f) ==
    Examples(f) \cup
    UNION {{[e |-> t, xs |-> a, ys |-> b] :
               a \in SeqsUpTo(Vals(f, t), MaxLen), b \in SeqsUpTo(Vals(f, t), MaxLen)} :
           t \in Types(f)}

\* Inputs of the permutation runs: equal lengths, and u8 xs ascending (every
\* equal-length u8 input is one of these with xs and ys rearranged together).
Ascending(s) == \A i \in 1..Len(s) - 1 : s[i] <= s[i + 1]

PermInputs ==
    {[e |-> "u8", xs |-> CanonXs, ys |-> CanonYs]} \cup
    UNION {{[e |-> "u8", xs |-> a, ys |-> b] :
               a \in {c \in [1..k -> Vals("exact", "u8")] : Ascending(c)},
               b \in [1..k -> Vals("exact", "u8")]} \cup
           {[e |-> "F", xs |-> a, ys |-> b] :
               a \in [1..k -> Vals("exact", "F")], b \in [1..k -> Vals("exact", "F")]} :
           k \in 0..MaxLen}

Perms(n) == {p \in [1..n -> 1..n] : \A i, j \in 1..n : p[i] = p[j] => i = j}
Permute(s, p) == [i \in 1..Len(s) |-> s[p[i]]]
Arrangements(s) == {Permute(s, p) : p \in Perms(Len(s))}

\* ------------------------------------------------------------------- state
VARIABLES fmt, ex, ey, xs, ys, pc, res, xs2, ys2, res2

vars == <<fmt, ex, ey, xs, ys, pc, res, xs2, ys2, res2>>

NoRet == Ret(None, 0)

Init ==
    /\ fmt \in {"exact", "ieee"}
    /\ \E c \in Inputs(fmt) : ex = c.e /\ ey = c.e /\ xs = c.xs /\ ys = c.ys
    /\ pc = "input"
    /\ res = NoRet
    /\ xs2 = <<>>
    /\ ys2 = <<>>
    /\ res2 = NoRet

InitPerm ==
    /\ fmt = "exact"
    /\ \E c \in PermInputs : ex = c.e /\ ey = c.e /\ xs = c.xs /\ ys = c.ys
    /\ pc = "input"
    /\ res = NoRet
    /\ xs2 = <<>>
    /\ ys2 = <<>>
    /\ res2 = NoRet

\* linear_regression(&xs, &ys)
CallLinearRegression ==
    /\ pc = "input"
    /\ res' = linear_regression(fmt, ex, ey, xs, ys)
    /\ pc' = "fit"
    /\ UNCHANGED <<fmt, ex, ey, xs, ys, xs2, ys2, res2>>

\* linear_regression_of(&xys) on the positional pairs of the same data
CallLinearRegressionOf ==
    /\ pc = "fit"
    /\ Len(xs) = Len(ys)
    /\ res2' = linear_regression_of(fmt, ex, ey, Zip(xs, ys))
    /\ pc' = "fit_of"
    /\ UNCHANGED <<fmt, ex, ey, xs, ys, res, xs2, ys2>>

\* regenerate ys from the fitted line (in F) and fit again
Refit ==
    /\ pc = "fit"
    /\ res.val.some
    /\ xs2' = xs
    /\ ys2' = [i \in 1..Len(xs) |->
                 Add(fmt, Mul(fmt, res.val.slope, IntoF(ex, xs[i])), res.val.intercept)]
    /\ res2' = linear_regression(fmt, ex, "F", xs, ys2')
    /\ pc' = "refit"
    /\ UNCHANGED <<fmt, ex, ey, xs, ys, res>>

\* fit again after permuting xs and ys, each by a permutation of its own
FitPermuted ==
    /\ pc = "fit"
    /\ Len(xs) = Len(ys)
    /\ \E t \in Arrangements(xs) \X Arrangements(ys) : xs2' = t[1] /\ ys2' = t[2]
    /\ res2' = linear_regression(fmt, ex, ey, xs2', ys2')
    /\ pc' = "permuted"
    /\ UNCHANGED <<fmt, ex, ey, xs, ys, res>>

Next == CallLinearRegression \/ CallLinearRegressionOf \/ Refit

\* linear_regression_of(&xys) on the positional pairs of the input
CallLinearRegressionOfPairs ==
    /\ pc = "input"
    /\ Len(xs) = Len(ys)
    /\ res' = linear_regression_of(fmt, ex, ey, Zip(xs, ys))
    /\ pc' = "of"
    /\ UNCHANGED <<fmt, ex, ey, xs, ys, xs2, ys2, res2>>

\* linear_regression_of(&xys) again after permuting the elements of xys
FitPermutedOf ==
    /\ pc = "of"
    /\ \E w \in Arrangements(Zip(xs, ys)) :
          /\ xs2' = [i \in 1..Len(w) |-> w[i][1]]
          /\ ys2' = [i \in 1..Len(w) |-> w[i][2]]
          /\ res2' = linear_regression_of(fmt, ex, ey, w)
    /\ pc' = "permuted_of"
    /\ UNCHANGED <<fmt, ex, ey, xs, ys, res>>

NextPerm ==
    CallLinearRegression \/ FitPermuted \/ CallLinearRegressionOfPairs \/ FitPermutedOf

Spec == Init /\ [][Next]_vars

SpecPerm == InitPerm /\ [][NextPerm]_vars

\* ------------------------------------------------- reference definitions
\* Exact rational arithmetic on finite values, for stating the properties.
QAdd(a, b) == Rat(a.n * b.d + b.n * a.d, a.d * b.d)
QSub(a, b) == QAdd(a, Neg(b))
QMul(a, b) == Rat(a.n * b.n, a.d * b.d)
QDiv(a, b) == Rat(a.n * b.d, a.d * b.n)

RECURSIVE QSum(_, _)
QSum(t, k) == IF k = 0 THEN Zero ELSE QAdd(QSum(t, k - 1), t[k])

QMean(s) == QDiv(QSum(s, Len(s)), Rat(Len(s), 1))

\* SUM (x - mean(xs)) * (y - mean(ys)) over the positional pairs
CrossDev(a, b) ==
    LET ma == QMean(a)
        mb == QMean(b)
    IN  QSum([i \in 1..Len(a) |-> QMul(QSub(a[i], ma), QSub(b[i], mb))], Len(a))

OlsSlope(a, b) == QDiv(CrossDev(a, b), CrossDev(a, a))
OlsLine(a, b) ==
    LET m == OlsSlope(a, b)
    IN  Some(m, QSub(QMean(b), QMul(m, QMean(a))))

\* SUM xs[i] * ys[i]
DotProduct(a, b) == QSum([i \in 1..Len(a) |-> QMul(a[i], b[i])], Len(a))

FX == MapInto(ex, xs)
FY == MapInto(ey, ys)
Distinct(s) == \E i, j \in 1..Len(s) : s[i] # s[j]
Constant(s) == ~Distinct(s)
Called == pc # "input"

Occurrences(zs, z) == Cardinality({i \in 1..Len(zs) : zs[i] = z})
SamePairs(zs, ws) ==
    /\ Len(zs) = Len(ws)
    /\ \A i \in 1..Len(zs) : Occurrences(zs, zs[i]) = Occurrences(ws, zs[i])

\* ------------------------------------------------------------------ claims

\* C1: in exact arithmetic, equal-length non-empty input with two differing
\* x values gives Some((slope, intercept)) with the least-squares slope
\* SUM(dx*dy)/SUM(dx^2) and intercept mean(ys) - slope*mean(xs); the
\* canonical dataset gives (3/5, 11/5); integer elements give the result of
\* float elements of equal value.
C1_LeastSquares ==
    (pc = "fit" /\ fmt = "exact" /\ Len(xs) = Len(ys) /\ Distinct(FX)) =>
        /\ res.val = OlsLine(FX, FY)
        /\ (FX = MapInto("u8", CanonXs) /\ FY = MapInto("u8", CanonYs))
              => res.val = Some(Rat(3, 5), Rat(11, 5))
        /\ res.val = linear_regression(fmt, "F", "F", FX, FY).val

C1_Witness ==
    /\ pc = "fit" /\ fmt = "exact" /\ ex = "u8"
    /\ xs = CanonXs /\ ys = CanonYs
    /\ res.val = Some(Rat(3, 5), Rat(11, 5))

\* C2: on equal-length input the two-slice form and the paired form return
\* the same outcome, in every format.
C2_FormsAgree == pc = "fit_of" => res2.val = res.val

C2_Witness ==
    /\ pc = "fit_of" /\ fmt = "ieee" /\ Len(xs) = 3 /\ Distinct(FX)
    /\ res2.val.some /\ res2.val.slope # OlsSlope(FX, FY)

\* C3 (as claimed): a single point, or points whose x values are all
\* identical, give no value from both forms.
C3_ConstantXIsNone ==
    (Len(xs) = Len(ys) /\ Len(xs) >= 1 /\ Constant(FX)) =>
        /\ Called => res.val = None
        /\ pc = "fit_of" => res2.val = None

\* C4: empty input gives no value: xs empty, ys empty or both for the
\* two-slice form, xys empty for the paired form.
C4_EmptyIsNone ==
    /\ (Called /\ (Len(xs) = 0 \/ Len(ys) = 0)) => res.val = None
    /\ (pc = "fit_of" /\ Len(xs) = 0) => res2.val = None

C4_Witness ==
    /\ pc = "fit_of" /\ xs = <<>> /\ ys = <<>>
    /\ res.val = None /\ res.passes = 3 /\ res2.val = None

\* C5: slices of different lengths give no value, before any pass over the
\* data (no sum, no mean).
C5_MismatchIsNone ==
    (Called /\ Len(xs) # Len(ys)) => (res.val = None /\ res.passes = 0)

C5_Witness ==
    /\ pc = "fit" /\ Len(xs) = 2 /\ Len(ys) = 3 /\ Distinct(FX)
    /\ res.val = None

\* C6 (as claimed): no call returns Some with a non-finite slope.
C6_SlopeFinite ==
    /\ (Called /\ res.val.some) => IsFinite(res.val.slope)
    /\ res2.val.some => IsFinite(res2.val.slope)

\* C7 (as claimed): a count that F cannot hold exactly gives no value.
C7_InexactCountIsNone ==
    (Called /\ Len(xs) = Len(ys) /\ Round(fmt, Rat(Len(xs), 1)) # Rat(Len(xs), 1))
        => res.val = None

\* C8 (as claimed): refitting the regenerated ys returns the same result.
\* Read on the fits whose slope, intercept and regenerated ys are finite, so
\* that a violation owes nothing to the infinite slopes of C6.
C8_RoundTrip ==
    (pc = "refit" /\ IsFinite(res.val.slope) /\ IsFinite(res.val.intercept)
       /\ \A i \in 1..Len(ys2) : IsFinite(ys2[i]))
        => res2.val = res.val

\* C8 (amended): in exact arithmetic the round trip returns the same
\* (m, b); the line xs=[0,1,2], ys=[3,5,7] gives (2, 3).
C8_RoundTripExact ==
    /\ (pc = "refit" /\ fmt = "exact") => res2.val = res.val
    /\ (Called /\ fmt = "exact" /\ FX = MapInto("u8", LineXs) /\ FY = MapInto("u8", LineYs))
          => res.val = Some(Rat(2, 1), Rat(3, 1))

C8_Witness ==
    /\ pc = "refit" /\ fmt = "exact" /\ Len(xs) = 3
    /\ ys2 # FY /\ res2.val.some /\ res2.val.slope.d = 2

\* C9 (as claimed): independent permutations that alter the multiset of
\* positional pairs change the result.
C9_AlteredPairsChangeResult ==
    (pc = "permuted" /\ ~SamePairs(Zip(xs, ys), Zip(xs2, ys2))) => res2.val # res.val

\* C9 (amended): in exact arithmetic, independent permutations that alter
\* the sum of positional products SUM xs[i]*ys[i] change the result.
C9_AlteredProductsChangeResult ==
    (pc = "permuted" /\ fmt = "exact"
       /\ DotProduct(MapInto(ex, xs2), MapInto(ey, ys2)) # DotProduct(FX, FY))
        => res2.val # res.val

C9_Witness ==
    /\ pc = "permuted" /\ Len(xs) = 3
    /\ DotProduct(MapInto(ex, xs2), MapInto(ey, ys2)) # DotProduct(FX, FY)
    /\ res.val.some /\ res2.val.some

\* C10: in exact arithmetic one and the same permutation of xs and ys
\* leaves the outcome of linear_regression unchanged, and a permutation of
\* the elements of xys leaves the outcome of linear_regression_of unchanged,
\* for no-value and for value outcomes.
C10_SamePermutationSameResult ==
    (/\ fmt = "exact"
     /\ pc \in {"permuted", "permuted_of"}
     /\ SamePairs(Zip(xs, ys), Zip(xs2, ys2)))
        => res2.val = res.val

C10_Witness ==
    /\ pc = "permuted_of" /\ SamePairs(Zip(xs, ys), Zip(xs2, ys2))
    /\ xs2 # xs /\ ys2 # ys
    /\ res.val.some /\ res.val.slope.n # 0

====
